---------------------------- MODULE Spec2Model ----------------------------
(***************************************************************************)
(* A model of the matrix-webhook bridge: the session start-up of           *)
(* E2EEClient.run (login, subscriptions, key upload, room joins, sync      *)
(* loop), the webhook handler WebhookServer._post_hook, and the device     *)
(* verification handler E2EEClient.to_device_callback.                     *)
(*                                                                         *)
(* The matrix-nio transport and aiohttp are external: every answer they    *)
(* can give (a result, an error response, an exception) is a               *)
(* nondeterministic input of the action that makes the call.               *)
(***************************************************************************)
EXTENDS Integers, Sequences, FiniteSets, TLC

VARIABLES
    \* ---- E2EEClient / session ----
    config_file,      \* content of {STORE_PATH}/credentials.json: <<>> or <<record>>
    client,           \* self.client: its login state and identity
    exchanges,        \* number of password exchanges (client.login calls) made
    runPc,            \* position of E2EEClient.run
    callbacks,        \* subscriptions registered on the client
    keys_uploaded,    \* client.keys_upload() was awaited
    joined,           \* rooms for which client.join(room) was awaited
    greeting_sent,    \* self.greeting_sent
    cb_result,        \* how the most recent callback invocation ended
    \* ---- WebhookServer ----
    webPc,            \* position of WebhookServer.run
    message_format,   \* os.environ['MESSAGE_FORMAT']
    posts,            \* number of POST requests handled
    request,          \* the request most recently handled by _post_hook
    response,         \* what its caller got back
    sends,            \* invocations of send_message / send_image, in order
    \* ---- device verification ----
    verification_from_device,  \* self.verification_from_device
    events,           \* per transaction id: the events handed to the callback
    td_sent,          \* per transaction id: the transport calls made for it
    errored,          \* transactions for which the transport answered with a failure
    verified,         \* transactions for which "verification was successful" was printed
    \* ---- send_image and _parse_known_tokens in detail ----
    image,            \* the most recent execution of send_image: inputs and effects
    rooms,            \* the registry string handed to _parse_known_tokens
    known_tokens,     \* the dictionary _parse_known_tokens returned for it
    \* ---- _sync_callback in detail ----
    sync_calls,       \* the invocations of _sync_callback, in order of entry
    \* ---- environment ----
    MATRIX_SSLVERIFY  \* os.environ['MATRIX_SSLVERIFY']

sessionVars == <<config_file, client, exchanges, runPc, callbacks,
                 keys_uploaded, joined, greeting_sent, cb_result>>
webVars     == <<webPc, message_format, posts, request, response>>
verifVars   == <<verification_from_device, events, td_sent, errored, verified>>
detailVars  == <<image, rooms, known_tokens, sync_calls, MATRIX_SSLVERIFY>>
vars        == <<sessionVars, webVars, sends, verifVars, detailVars>>

---------------------------------------------------------------------------
\* Bounds of the model.
MaxPosts  == 2      \* webhook requests handled in one run
MaxEvents == 4      \* transaction-bearing to-device events handled in one run

---------------------------------------------------------------------------
\* Configuration.

ADMIN_ROOM == "admin"

\* self.KNOWN_TOKENS as built at start-up from a registry of two entries.
KNOWN_TOKENS ==
    [t \in {"tok1", "tok2"} |->
        IF t = "tok1" THEN [room |-> "roomA", app_name |-> "AppOne"]
                      ELSE [room |-> "roomB", app_name |-> "AppTwo"]]

\* Tokens a caller may present: the registered ones and one that is not.
RequestTokens == {"tok1", "tok2", "nope"}

\* Values the MESSAGE_FORMAT setting may hold: the three formats and one other.
MessageFormats == {"raw", "json", "yaml", "xml"}

\* get_known_rooms, lines 48-53, over a given dictionary and admin room.
known_rooms(tokens, admin_room) ==
    {admin_room} \cup {tokens[t].room : t \in DOMAIN tokens}

get_known_rooms == known_rooms(KNOWN_TOKENS, ADMIN_ROOM)

\* E2EEClient.__init__: the join-set handed over by the entry point.
join_rooms == get_known_rooms

\* The record a previous run left in the store, and the one a first login yields.
StoredCredential ==
    [user_id |-> "@bot", device_id |-> "DEVSTORED", access_token |-> "secretStored"]
LoginResponse ==
    [user_id |-> "@bot", device_id |-> "DEVFIRST", access_token |-> "secretFirst"]

\* self.client = None; ssl is the argument an AsyncClient is built with and
\* means nothing while there is none.
NoClient ==
    [state |-> "none", user_id |-> "", device_id |-> "", access_token |-> "",
     ssl |-> FALSE]

---------------------------------------------------------------------------
\* E2EEClient.login and its two paths.

\* A login that never looks at the store.
credentials_exist_ignored(file) == FALSE

\* login: os.path.exists(self.CONFIG_FILE).
credentials_exist(file) == file # <<>>

\* _login_first_time, line 68: ssl=(os.environ['MATRIX_SSLVERIFY'] == 'True').
ssl_first_time(toggle) == toggle = "True"

\* _login_with_stored_config, line 94: ssl=bool(os.environ['MATRIX_SSLVERIFY']);
\* bool of a string is False for the empty string only.
ssl_stored_config(toggle) == toggle # ""

\* _login_first_time up to its await: the client is built from the
\* environment, not yet logged in, and the password exchange is started.
login_first_time_client ==
    [state |-> "unauth", user_id |-> "@bot", device_id |-> "", access_token |-> "",
     ssl |-> ssl_first_time(MATRIX_SSLVERIFY)]

\* _write_details_to_disk: the record written for a LoginResponse.
write_details_to_disk(resp) ==
    << [user_id |-> resp.user_id, device_id |-> resp.device_id,
        access_token |-> resp.access_token] >>

\* client.login answered with a LoginResponse: the client carries its identity.
logged_in_client(cl, resp) ==
    [state |-> "auth", user_id |-> resp.user_id, device_id |-> resp.device_id,
     access_token |-> resp.access_token, ssl |-> cl.ssl]

\* _login_with_stored_config: nothing when a client exists already, else the
\* client is built and restore_login is given the stored identity.
login_with_stored_config(cl, file) ==
    IF cl.state # "none"
    THEN cl
    ELSE [state |-> "auth", user_id |-> file[1].user_id,
          device_id |-> file[1].device_id,
          access_token |-> file[1].access_token,
          ssl |-> ssl_stored_config(MATRIX_SSLVERIFY)]

\* run, line 353: login() up to its first suspension. With a stored record
\* nothing is awaited on the network and login() returns; without one the
\* coroutine is suspended in client.login(password=...).
login ==
    /\ runPc = "start"
    /\ IF credentials_exist(config_file)
       THEN /\ client' = login_with_stored_config(client, config_file)
            /\ runPc' = "subscribe"
            /\ UNCHANGED exchanges
       ELSE /\ client' = login_first_time_client
            /\ exchanges' = exchanges + 1
            /\ runPc' = "first_login"
    /\ UNCHANGED <<config_file, callbacks, keys_uploaded, joined, greeting_sent,
                   cb_result, webVars, sends, verifVars, detailVars>>

\* A first login that logs the failure and carries on.
login_answered_without_exit(accepted) == "subscribe"

\* _login_first_time, lines 73-79: where run() stands once client.login has
\* answered. Anything but a LoginResponse ends in sys.exit(1).
login_answered(accepted) == IF accepted THEN "subscribe" ELSE "exited"

\* _login_first_time after the await: a LoginResponse is written to disk,
\* anything else ends the process (sys.exit(1)).
login_first_time ==
    /\ runPc = "first_login"
    /\ \E accepted \in BOOLEAN :
         /\ runPc' = login_answered(accepted)
         /\ IF accepted
            THEN /\ config_file' = write_details_to_disk(LoginResponse)
                 /\ client' = login_with_stored_config(
                                 logged_in_client(client, LoginResponse),
                                 write_details_to_disk(LoginResponse))
            ELSE UNCHANGED <<config_file, client>>
    /\ UNCHANGED <<exchanges, callbacks, keys_uploaded, joined, greeting_sent,
                   cb_result, webVars, sends, verifVars, detailVars>>

---------------------------------------------------------------------------
\* E2EEClient.run after login.

\* run, lines 354-358: the three subscriptions, then should_upload_keys.
subscribe ==
    /\ runPc = "subscribe"
    /\ callbacks' = {"message", "sync", "to_device"}
    /\ \E should_upload_keys \in BOOLEAN :
         runPc' = IF should_upload_keys THEN "keys_upload" ELSE "join"
    /\ UNCHANGED <<config_file, client, exchanges, keys_uploaded, joined,
                   greeting_sent, cb_result, webVars, sends, verifVars, detailVars>>

\* run, line 359.
keys_upload ==
    /\ runPc = "keys_upload"
    /\ keys_uploaded' = TRUE
    /\ runPc' = "join"
    /\ UNCHANGED <<config_file, client, exchanges, callbacks, joined,
                   greeting_sent, cb_result, webVars, sends, verifVars, detailVars>>

\* run, lines 361-362: one iteration of the loop over the set join_rooms.
join ==
    /\ runPc = "join"
    /\ \E room \in join_rooms \ joined : joined' = joined \cup {room}
    /\ UNCHANGED <<config_file, client, exchanges, runPc, callbacks,
                   keys_uploaded, greeting_sent, cb_result, webVars, sends,
                   verifVars, detailVars>>

\* A run() that enters sync_forever without waiting for the join loop.
sync_forever_early ==
    /\ runPc = "join"
    /\ runPc' = "sync"
    /\ UNCHANGED <<config_file, client, exchanges, callbacks, keys_uploaded,
                   joined, greeting_sent, cb_result, webVars, sends, verifVars, detailVars>>

\* run, lines 363-366: the loop is over, joined_rooms() is awaited and
\* sync_forever is entered.
sync_forever ==
    /\ runPc = "join"
    /\ join_rooms \ joined = {}
    /\ runPc' = "sync"
    /\ UNCHANGED <<config_file, client, exchanges, callbacks, keys_uploaded,
                   joined, greeting_sent, cb_result, webVars, sends, verifVars, detailVars>>

---------------------------------------------------------------------------
\* send_message / send_image as seen by their callers.

\* What the transport can answer to a send: a response ("ok"), an error
\* response ("error"), or an exception ("raise"); a client that is not
\* logged in never gets a response. For send_message it is the answer of
\* client.room_send; for send_image it is the first failure among
\* client.upload and client.room_send, or "ok".
RoomSendAnswers(cl) ==
    IF cl.state = "auth" THEN {"ok", "error", "raise"} ELSE {"error", "raise"}

\* The answer send_message gets: with self.client = None the attribute
\* access self.client.room_send raises before any call is made.
transport_answer(cl, answer) ==
    IF cl.state = "none" THEN "no_client" ELSE answer

\* send_message has no exception handler: what room_send raises, it raises;
\* an error response is returned by room_send and dropped.
send_message(cl, answer) ==
    IF transport_answer(cl, answer) \in {"no_client", "raise"}
    THEN "raised" ELSE "returned"

\* send_image: the whole body is inside try / except Exception.
send_image(cl, answer) == "returned"

\* _sync_callback: the greeting goes out on the first SyncResponse only; the
\* callback has no exception handler, so what send_message raises leaves it
\* and, through sync_forever, ends run().
sync_callback ==
    /\ runPc = "sync"
    /\ "sync" \in callbacks
    /\ IF ~greeting_sent
       THEN /\ greeting_sent' = TRUE
            /\ \E answer \in RoomSendAnswers(client) :
                 /\ sends' = Append(sends,
                        [fn |-> "send_message", src |-> "greeting",
                         room |-> ADMIN_ROOM,
                         sender |-> "Webhook server",
                         data |-> "greeting",
                         answer |-> transport_answer(client, answer)])
                 /\ cb_result' = send_message(client, answer)
                 /\ runPc' = IF send_message(client, answer) = "raised"
                             THEN "crashed" ELSE "sync"
       ELSE /\ cb_result' = "returned"
            /\ UNCHANGED <<greeting_sent, sends, runPc>>
    /\ UNCHANGED <<config_file, client, exchanges, callbacks, keys_uploaded,
                   joined, webVars, verifVars, detailVars>>

\* _message_callback: logs the incoming text.
message_callback ==
    /\ runPc = "sync"
    /\ "message" \in callbacks
    /\ cb_result' = "returned"
    /\ UNCHANGED <<config_file, client, exchanges, runPc, callbacks,
                   keys_uploaded, joined, greeting_sent, webVars, sends,
                   verifVars, detailVars>>

---------------------------------------------------------------------------
\* E2EEClient._sync_callback in detail: the coroutine runs without
\* interruption up to the await inside send_message (client.room_send) and
\* is resumed when the transport answers; other callbacks and handlers run
\* in between.

MaxSyncs == 3       \* SyncResponses handed to _sync_callback in one run

\* A callback that leaves the flag as it is until the send has been awaited.
mark_greeting_late(sent) == sent

\* _sync_callback, line 201: self.greeting_sent = True, before the await.
mark_greeting(sent) == TRUE

\* _sync_callback, lines 197-203 up to the await: the flag is read and set
\* in one piece; an invocation that finds it set returns at once.
sync_callback_enter ==
    /\ runPc = "sync"
    /\ "sync" \in callbacks
    /\ Len(sync_calls) < MaxSyncs
    /\ IF ~greeting_sent
       THEN /\ greeting_sent' = mark_greeting(greeting_sent)
            /\ sync_calls' = Append(sync_calls,
                                    [greets |-> TRUE, pc |-> "awaiting"])
            /\ UNCHANGED cb_result
       ELSE /\ sync_calls' = Append(sync_calls,
                                    [greets |-> FALSE, pc |-> "returned"])
            /\ cb_result' = "returned"
            /\ UNCHANGED greeting_sent
    /\ UNCHANGED <<config_file, client, exchanges, runPc, callbacks,
                   keys_uploaded, joined, webVars, sends, verifVars, image,
                   rooms, known_tokens, MATRIX_SSLVERIFY>>

\* _sync_callback, line 203, from the await on: room_send answers; what it
\* raises leaves send_message, the callback and, through sync_forever,
\* run().
sync_callback_resume ==
    /\ runPc = "sync"
    /\ \E i \in 1..Len(sync_calls) :
         /\ sync_calls[i].pc = "awaiting"
         /\ \E answer \in RoomSendAnswers(client) :
              /\ sends' = Append(sends,
                     [fn |-> "send_message", src |-> "greeting",
                      room |-> ADMIN_ROOM,
                      sender |-> "Webhook server",
                      data |-> "greeting",
                      answer |-> transport_answer(client, answer)])
              /\ sync_calls' = [sync_calls EXCEPT
                                   ![i].pc = send_message(client, answer)]
              /\ cb_result' = send_message(client, answer)
              /\ runPc' = IF send_message(client, answer) = "raised"
                          THEN "crashed" ELSE "sync"
    /\ UNCHANGED <<config_file, client, exchanges, callbacks, keys_uploaded,
                   joined, greeting_sent, webVars, verifVars, image, rooms,
                   known_tokens, MATRIX_SSLVERIFY>>

---------------------------------------------------------------------------
\* WebhookServer.

\* The requests the listener may be handed. A multipart request carries a
\* form with or without a file field ("image" / "file"); any other request
\* carries a body that is or is not valid UTF-8 and, when it is, does or
\* does not parse as JSON.
Requests ==
    [token : RequestTokens, multipart : {TRUE}, has_file : BOOLEAN,
     utf8 : {TRUE}, json : {FALSE}]
    \cup
    [token : RequestTokens, multipart : {FALSE}, has_file : {FALSE},
     utf8 : {TRUE}, json : BOOLEAN]
    \cup
    [token : RequestTokens, multipart : {FALSE}, has_file : {FALSE},
     utf8 : {FALSE}, json : {FALSE}]

NoRequest ==
    [token |-> "", multipart |-> FALSE, has_file |-> FALSE, utf8 |-> TRUE,
     json |-> FALSE]

\* _post_hook, lines 78 and 109: token not in self.KNOWN_TOKENS.
token_known(token) == token \in DOMAIN KNOWN_TOKENS

\* _post_hook, line 113.
format_allowed(fmt) == fmt \in {"raw", "json", "yaml"}

\* _post_hook, lines 77-103: the multipart path. The token is looked up
\* first, then the file field; send_image is called for a registered token
\* with a file field, and whatever it did the image acknowledgment follows.
post_hook_multipart(req) ==
    IF ~token_known(req.token)
    THEN [response |-> "404", fn |-> "none", data |-> "none"]
    ELSE IF ~req.has_file
    THEN [response |-> "400", fn |-> "none", data |-> "none"]
    ELSE [response |-> "200_image", fn |-> "send_image", data |-> "file"]

\* _post_hook, lines 117-125: what is handed to send_message. For raw it is
\* the decoded body. Otherwise it is the serialization of request.json(),
\* or, when that raises, of what dict(await request.post()) gave: the
\* failure is logged and the request goes on.
message_data(req, fmt) ==
    IF fmt = "raw" THEN "body"
    ELSE IF req.json THEN "json" ELSE "form"

\* _post_hook, lines 105-138: every other content type. The body is read
\* and decoded (payload.decode() raises on bytes that are not UTF-8) before
\* the token and the format are looked at; send_message is called last.
post_hook_body(req, fmt) ==
    IF ~req.utf8
    THEN [response |-> "exception", fn |-> "none", data |-> "none"]
    ELSE IF ~token_known(req.token)
    THEN [response |-> "404", fn |-> "none", data |-> "none"]
    ELSE IF ~format_allowed(fmt)
    THEN [response |-> "415", fn |-> "none", data |-> "none"]
    ELSE [response |-> "200", fn |-> "send_message",
          data |-> message_data(req, fmt)]

\* _post_hook, line 77: the dispatch on the content type.
post_hook_plan(req, fmt) ==
    IF req.multipart THEN post_hook_multipart(req) ELSE post_hook_body(req, fmt)

\* sys.exit(1) in _login_first_time ends the process, and the listener
\* with it.
process_alive == runPc # "exited"

\* _post_hook: one request handled. An exception that leaves send_message
\* leaves the handler too (lines 128-132 are not inside a try).
post_hook ==
    /\ webPc = "listening"
    /\ process_alive
    /\ posts < MaxPosts
    /\ \E req \in Requests :
         LET plan == post_hook_plan(req, message_format) IN
         /\ request' = req
         /\ posts' = posts + 1
         /\ IF plan.fn = "none"
            THEN /\ response' = plan.response
                 /\ UNCHANGED sends
            ELSE \E answer \in RoomSendAnswers(client) :
                 /\ sends' = Append(sends,
                        [fn |-> plan.fn, src |-> "webhook",
                         room |-> KNOWN_TOKENS[req.token].room,
                         sender |-> KNOWN_TOKENS[req.token].app_name,
                         data |-> plan.data,
                         answer |-> transport_answer(client, answer)])
                 /\ response' =
                        IF plan.fn = "send_message"
                        THEN IF send_message(client, answer) = "raised"
                             THEN "exception" ELSE plan.response
                        ELSE IF send_image(client, answer) = "raised"
                             THEN "exception" ELSE plan.response
    /\ UNCHANGED <<sessionVars, webPc, message_format, verifVars, detailVars>>

\* WebhookServer.run, lines 141-147: the client handle is kept, the routes
\* are added and runner.setup() is awaited.
web_setup ==
    /\ webPc = "init"
    /\ process_alive
    /\ webPc' = "setup"
    /\ UNCHANGED <<sessionVars, message_format, posts, request, response,
                   sends, verifVars, detailVars>>

\* WebhookServer.run, lines 149-151: site.start(); requests are accepted
\* from here on.
web_start ==
    /\ webPc = "setup"
    /\ process_alive
    /\ webPc' = "listening"
    /\ UNCHANGED <<sessionVars, message_format, posts, request, response,
                   sends, verifVars, detailVars>>

---------------------------------------------------------------------------
\* WebhookServer._parse_known_tokens in detail. Strings are sequences of
\* one-character strings.

MaxGroups == 2      \* entries a registry string is put together from

\* Characters str.strip() removes (of those the model writes).
Whitespace == {" ", "\n", "\t"}

\* str.replace for single characters.
replace(s, old, new) ==
    [i \in 1..Len(s) |-> IF s[i] = old THEN new ELSE s[i]]

\* str.split(sep, maxsplit) with a one-character separator: every
\* occurrence splits (two separators in a row give an empty piece), at
\* most maxsplit times; maxsplit = -1 is no limit.
RECURSIVE split(_, _, _)
split(s, sep, maxsplit) ==
    LET found == {i \in 1..Len(s) : s[i] = sep} IN
    IF found = {} \/ maxsplit = 0 THEN <<s>>
    ELSE LET i == CHOOSE k \in found : \A j \in found : k <= j
         IN  <<SubSeq(s, 1, i - 1)>> \o
             split(SubSeq(s, i + 1, Len(s)), sep,
                   IF maxsplit < 0 THEN maxsplit ELSE maxsplit - 1)

RECURSIVE lstrip(_)
lstrip(s) ==
    IF s # <<>> /\ Head(s) \in Whitespace THEN lstrip(Tail(s)) ELSE s

RECURSIVE rstrip(_)
rstrip(s) ==
    IF s # <<>> /\ s[Len(s)] \in Whitespace
    THEN rstrip(SubSeq(s, 1, Len(s) - 1)) ELSE s

\* str.strip().
strip(s) == rstrip(lstrip(s))

\* A dictionary that keeps the value a key already has.
setdefault(d, key, value) ==
    [k \in DOMAIN d \cup {key} |-> IF k \in DOMAIN d THEN d[k] ELSE value]

\* known_tokens[token] = {...}, line 42: an existing key is overwritten.
setitem(d, key, value) ==
    [k \in DOMAIN d \cup {key} |-> IF k = key THEN value ELSE d[k]]

\* _parse_known_tokens, lines 28-42: one pass of the loop body.
parse_entry(known, raw) ==
    LET pairs == strip(raw)
        cut   == split(pairs, ",", 2)
        parts == [i \in 1..Len(cut) |-> strip(cut[i])]
    IN  IF pairs = <<>> THEN known
        ELSE IF Len(parts) # 3 THEN known
        ELSE IF parts[1] = <<>> \/ parts[2] = <<>> \/ parts[3] = <<>>
        THEN known
        ELSE setitem(known, parts[1],
                     [room |-> parts[2], app_name |-> parts[3]])

\* _parse_known_tokens, line 27: the loop over the pieces, in order.
RECURSIVE parse_loop(_, _)
parse_loop(known, raws) ==
    IF raws = <<>> THEN known
    ELSE parse_loop(parse_entry(known, Head(raws)), Tail(raws))

\* _parse_known_tokens, lines 19-46.
parse_known_tokens(s) ==
    IF s = <<>> THEN <<>>
    ELSE parse_loop(<<>>, split(replace(s, "\n", " "), " ", -1))

\* os.environ['MATRIX_ADMIN_ROOM'] next to a parsed registry.
MATRIX_ADMIN_ROOM == <<"m">>

\* Registry entries as an operator writes them.
Entry(token, room, app_name) == token \o <<",">> \o room \o <<",">> \o app_name

\* Entries of the documented form token,room,appName; the app name may
\* hold a space.
WellFormed ==
    [token : {<<"t">>, <<"u">>}, room : {<<"r">>, <<"s">>},
     app_name : {<<"a">>, <<"a", " ", "b">>}]

Render(e) == Entry(e.token, e.room, e.app_name)

\* What a registry string is put together from: well-formed entries, and
\* entries with two fields, an empty field, a field of white space, a third
\* comma, or a leading tab.
Palette ==
    {Render(e) : e \in WellFormed}
    \cup {<<"t", ",", "r">>,
          Entry(<<"u">>, <<>>, <<"a">>),
          Entry(<<"u">>, <<"\t">>, <<"a">>),
          Entry(<<"u">>, <<"s">>, <<"a", ",", "b">>),
          <<"\t">> \o Entry(<<"u">>, <<"r">>, <<"a">>)}

\* What stands between two entries.
Separators == {<<" ">>, <<"\n">>, <<" ", " ">>}

\* The registry strings of n entries.
RECURSIVE RegistryStrings(_)
RegistryStrings(n) ==
    IF n = 0 THEN {<<>>}
    ELSE IF n = 1 THEN Palette
    ELSE {r \o sep \o e :
            r \in RegistryStrings(n - 1), sep \in Separators, e \in Palette}

\* WebhookServer.__init__, lines 16-17.
WebhookServer_init ==
    /\ webPc = "new"
    /\ known_tokens' = parse_known_tokens(rooms)
    /\ webPc' = "init"
    /\ UNCHANGED <<sessionVars, message_format, posts, request, response,
                   sends, verifVars, image, rooms, sync_calls,
                   MATRIX_SSLVERIFY>>

---------------------------------------------------------------------------
\* E2EEClient.send_image in detail.

\* What self.client.rooms holds for the destination room: no entry (the
\* room has not been synced), an encrypted room, or a room without
\* encryption.
RoomStates == {"unknown", "encrypted", "plain"}

\* What client.upload can answer: an UploadResponse, an UploadError, or an
\* exception.
UploadAnswers == {"ok", "error", "raise"}

\* A lookup that takes a room without an entry for not encrypted.
is_encrypted_if_known(room_state) == room_state = "encrypted"

\* send_image, lines 256-257: getattr(room_obj, "encrypted", True), where
\* room_obj is None for a room without an entry.
is_encrypted(room_state) == room_state # "plain"

\* The bytes handed to client.upload, by where they come from: the first
\* component of encrypt_attachment(file_bytes) (line 278) or file_bytes.
encrypt_attachment(file_bytes) == [cipher |-> TRUE, of |-> file_bytes]
unencrypted(file_bytes)        == [cipher |-> FALSE, of |-> file_bytes]
NoBytes                        == [cipher |-> FALSE, of |-> "none"]

\* A send_image execution that did nothing on the transport.
NothingSent(result) ==
    [uploaded |-> NoBytes, upload |-> "none", content |-> "none",
     room_send |-> "none", result |-> result]

\* A send_image without the outer handler and without the UploadError
\* checks.
send_image_unguarded(cl, room_state, import_ok, upload_answer, send_answer) ==
    IF cl.state = "none" THEN NothingSent("raised")
    ELSE IF is_encrypted(room_state) /\ ~import_ok THEN NothingSent("raised")
    ELSE LET bytes == IF is_encrypted(room_state)
                      THEN encrypt_attachment("file_bytes")
                      ELSE unencrypted("file_bytes")
         IN  IF upload_answer = "raise"
             THEN [NothingSent("raised") EXCEPT
                       !.uploaded = bytes, !.upload = "raise"]
             ELSE [uploaded |-> bytes, upload |-> upload_answer,
                   content |-> IF is_encrypted(room_state)
                               THEN "file" ELSE "url",
                   room_send |-> send_answer,
                   result |-> IF send_answer = "raise"
                              THEN "raised" ELSE "returned"]

\* send_image, lines 248-350. Everything is inside try / except Exception
\* (349-350), so the call returns whatever happens: self.client is None
\* (AttributeError at 256), encrypt_attachment cannot be imported (raise at
\* 277), client.upload raises, client.room_send raises. An UploadError
\* response ends the call before the content is built (292-294, 325-327).
\* For an encrypted room the upload gets the ciphertext and the content
\* carries "file" (url, iv, hashes, key); otherwise the upload gets
\* file_bytes and the content carries "url".
send_image_run(cl, room_state, import_ok, upload_answer, send_answer) ==
    IF cl.state = "none" THEN NothingSent("returned")
    ELSE IF is_encrypted(room_state) /\ ~import_ok THEN NothingSent("returned")
    ELSE LET bytes == IF is_encrypted(room_state)
                      THEN encrypt_attachment("file_bytes")
                      ELSE unencrypted("file_bytes")
         IN  IF upload_answer \in {"raise", "error"}
             THEN [NothingSent("returned") EXCEPT
                       !.uploaded = bytes, !.upload = upload_answer]
             ELSE [uploaded |-> bytes, upload |-> "ok",
                   content |-> IF is_encrypted(room_state)
                               THEN "file" ELSE "url",
                   room_send |-> send_answer,
                   result |-> "returned"]

\* How the delivery of an image went, as one transport answer.
image_answer(run) ==
    IF run.room_send # "none" THEN run.room_send
    ELSE IF run.upload = "error" THEN "error" ELSE "raise"

NoImage ==
    [room |-> "", room_state |-> "unknown", run |-> NothingSent("none")]

\* _post_hook, lines 77-103, for a multipart request with a registered
\* token and a file field: send_image is awaited and the image
\* acknowledgment is returned.
post_image ==
    /\ webPc = "listening"
    /\ process_alive
    /\ posts < MaxPosts
    /\ \E token \in DOMAIN KNOWN_TOKENS, room_state \in RoomStates,
          import_ok \in BOOLEAN, upload_answer \in UploadAnswers,
          send_answer \in {"ok", "error", "raise"} :
         LET req  == [token |-> token, multipart |-> TRUE, has_file |-> TRUE,
                      utf8 |-> TRUE, json |-> FALSE]
             plan == post_hook_plan(req, message_format)
             run  == send_image_run(client, room_state, import_ok,
                                    upload_answer, send_answer)
         IN  /\ request' = req
             /\ posts' = posts + 1
             /\ image' = [room |-> KNOWN_TOKENS[token].room,
                          room_state |-> room_state, run |-> run]
             /\ sends' = Append(sends,
                    [fn |-> plan.fn, src |-> "webhook",
                     room |-> KNOWN_TOKENS[token].room,
                     sender |-> KNOWN_TOKENS[token].app_name,
                     data |-> plan.data,
                     answer |-> transport_answer(client, image_answer(run))])
             /\ response' = IF run.result = "raised"
                            THEN "exception" ELSE plan.response
    /\ UNCHANGED <<sessionVars, webPc, message_format, verifVars, rooms,
                   known_tokens, sync_calls, MATRIX_SSLVERIFY>>

\* _post_hook handling a request that is not multipart.
post_text == post_hook /\ ~request'.multipart

---------------------------------------------------------------------------
\* E2EEClient.to_device_callback: the device verification handshake.

Tx  == {"T1", "T2"}      \* transaction ids
Dev == {"D1", "D2"}      \* peer devices

\* A transaction id is minted by the device that requests the verification.
PeerOf == [t \in Tx |-> IF t = "T1" THEN "D1" ELSE "D2"]

\* The events the transport may hand to the callback. A request names the
\* device it comes from; a start names the short-authentication-string
\* methods it offers. "request_malformed" is an m.key.verification.request
\* whose source lacks a field the handler reads; "other" is any event the
\* handler has no branch for.
ToDeviceEvents ==
    {[kind |-> "request", tx |-> t, dev |-> PeerOf[t], sas |-> {}] : t \in Tx}
    \cup [kind : {"done", "cancel", "key", "mac"}, tx : Tx, dev : {""}, sas : {{}}]
    \cup [kind : {"start"}, tx : Tx, dev : {""},
          sas : {{"decimal"}, {"decimal", "emoji"}}]
    \cup [kind : {"request_malformed", "other"}, tx : {""}, dev : {""}, sas : {{}}]

\* What the transport can answer while an event is handled: to_device,
\* accept_key_verification and confirm_short_auth_string return a response
\* ("ok"), return a ToDeviceError ("error") or raise ("raise");
\* client.key_verifications[tx] raises KeyError for a transaction the
\* transport does not hold ("unknown"); sas.get_mac() raises
\* LocalProtocolError for a cancelled transaction ("protocol").
\* Events handled without the transport have the one answer "ok".
Answers(ev) ==
    CASE ev.kind \in {"request", "done"} -> {"ok", "error", "raise"}
      [] ev.kind = "start" ->
            IF "emoji" \in ev.sas THEN {"ok", "error", "raise"} ELSE {"ok"}
      [] ev.kind = "key" -> {"ok", "error", "raise", "unknown"}
      [] ev.kind = "mac" -> {"ok", "error", "raise", "unknown", "protocol"}
      [] OTHER -> {"ok"}

NoEffect(vfd) ==
    [call |-> <<>>, vfd |-> vfd, verified |-> FALSE, exc |-> "none"]

\* Lines 127-141: the "ready" reply goes to the requesting device, which is
\* remembered in self.verification_from_device before the reply is sent.
handle_request(ev, vfd, answer) ==
    [call |-> << [op |-> "ready", tx |-> ev.tx, to |-> ev.dev] >>,
     vfd |-> ev.dev,
     verified |-> FALSE,
     exc |-> IF answer = "raise" THEN "transport" ELSE "none"]

\* Lines 127-137 for a request that lacks a field: the subscript raises
\* KeyError before line 140.
handle_request_malformed(ev, vfd, answer) ==
    [call |-> <<>>, vfd |-> vfd, verified |-> FALSE, exc |-> "KeyError"]

\* Lines 143-154: the "done" reply goes to self.verification_from_device.
handle_done(ev, vfd, answer) ==
    [call |-> << [op |-> "done", tx |-> ev.tx, to |-> vfd] >>,
     vfd |-> vfd,
     verified |-> FALSE,
     exc |-> IF answer = "raise" THEN "transport" ELSE "none"]

\* A handler that accepts whatever methods are offered.
emoji_offered_any(sas) == sas # {}

\* Line 157.
emoji_offered(sas) == "emoji" \in sas

\* Lines 156-165.
handle_start(ev, vfd, answer) ==
    IF ~emoji_offered(ev.sas)
    THEN NoEffect(vfd)
    ELSE [call |-> << [op |-> "accept", tx |-> ev.tx, to |-> ""] >>,
          vfd |-> vfd,
          verified |-> FALSE,
          exc |-> IF answer = "raise" THEN "transport" ELSE "none"]

\* Lines 167-171: the cancellation is printed.
handle_cancel(ev, vfd, answer) == NoEffect(vfd)

\* A key handler that shows the emoji and never confirms them.
handle_key_unconfirmed(ev, vfd, answer) ==
    [call |-> <<>>, vfd |-> vfd, verified |-> FALSE,
     exc |-> IF answer = "unknown" THEN "KeyError" ELSE "none"]

\* Lines 173-178.
handle_key(ev, vfd, answer) ==
    IF answer = "unknown"
    THEN [call |-> <<>>, vfd |-> vfd, verified |-> FALSE, exc |-> "KeyError"]
    ELSE [call |-> << [op |-> "confirm", tx |-> ev.tx, to |-> ""] >>,
          vfd |-> vfd,
          verified |-> FALSE,
          exc |-> IF answer = "raise" THEN "transport" ELSE "none"]

\* Lines 180-190: success is printed whenever to_device returns.
handle_mac(ev, vfd, answer) ==
    CASE answer = "unknown" ->
            [call |-> <<>>, vfd |-> vfd, verified |-> FALSE, exc |-> "KeyError"]
      [] answer = "protocol" -> NoEffect(vfd)
      [] OTHER ->
            [call |-> << [op |-> "mac", tx |-> ev.tx, to |-> ""] >>,
             vfd |-> vfd,
             verified |-> answer # "raise",
             exc |-> IF answer = "raise" THEN "transport" ELSE "none"]

\* Lines 126-193: the dispatch on the event's type.
handle(ev, vfd, answer) ==
    CASE ev.kind = "request"           -> handle_request(ev, vfd, answer)
      [] ev.kind = "request_malformed" -> handle_request_malformed(ev, vfd, answer)
      [] ev.kind = "done"              -> handle_done(ev, vfd, answer)
      [] ev.kind = "start"             -> handle_start(ev, vfd, answer)
      [] ev.kind = "cancel"            -> handle_cancel(ev, vfd, answer)
      [] ev.kind = "key"               -> handle_key(ev, vfd, answer)
      [] ev.kind = "mac"               -> handle_mac(ev, vfd, answer)
      [] OTHER                         -> NoEffect(vfd)

\* A handler that catches what the transport raises and nothing else.
caught_transport_only(exc) == exc = "transport"

\* Line 194: except BaseException.
caught(exc) == TRUE

\* How the callback ends for what was raised inside its try block.
callback_result(exc) ==
    IF exc # "none" /\ ~caught(exc) THEN "raised" ELSE "returned"

EventsHandled == Len(events["T1"]) + Len(events["T2"])

\* to_device_callback: one event handled, while sync_forever runs.
to_device_callback ==
    /\ runPc = "sync"
    /\ "to_device" \in callbacks
    /\ \E ev \in ToDeviceEvents :
         /\ ev.tx \in Tx => EventsHandled < MaxEvents
         /\ \E answer \in Answers(ev) :
              LET eff == handle(ev, verification_from_device, answer) IN
              /\ events' = IF ev.tx \in Tx
                           THEN [events EXCEPT ![ev.tx] = Append(@, ev)]
                           ELSE events
              /\ td_sent' = IF eff.call # <<>>
                            THEN [td_sent EXCEPT ![eff.call[1].tx] =
                                     Append(@, [op |-> eff.call[1].op,
                                                to |-> eff.call[1].to])]
                            ELSE td_sent
              /\ verification_from_device' = eff.vfd
              /\ verified' = IF eff.verified THEN verified \cup {ev.tx}
                             ELSE verified
              /\ errored' = IF answer # "ok" THEN errored \cup {ev.tx}
                            ELSE errored
              /\ cb_result' = callback_result(eff.exc)
              /\ runPc' = IF callback_result(eff.exc) = "raised"
                          THEN "crashed" ELSE runPc
    /\ UNCHANGED <<config_file, client, exchanges, callbacks, keys_uploaded,
                   joined, greeting_sent, webVars, sends, detailVars>>

---------------------------------------------------------------------------
\* The process: E2EEClient.run and WebhookServer.run started together as
\* two tasks of one event loop, neither waiting for the other.

InitDetail ==
    /\ image = NoImage
    /\ rooms = <<>>
    /\ known_tokens = <<>>
    /\ sync_calls = <<>>
    /\ MATRIX_SSLVERIFY = "True"

InitVerification ==
    /\ verification_from_device = ""
    /\ events = [t \in Tx |-> <<>>]
    /\ td_sent = [t \in Tx |-> <<>>]
    /\ errored = {}
    /\ verified = {}

Init ==
    /\ config_file \in {<<>>, <<StoredCredential>>}
    /\ client = NoClient
    /\ exchanges = 0
    /\ runPc = "start"
    /\ callbacks = {}
    /\ keys_uploaded = FALSE
    /\ joined = {}
    /\ greeting_sent = FALSE
    /\ cb_result = "none"
    /\ webPc = "init"
    /\ message_format \in MessageFormats
    /\ posts = 0
    /\ request = NoRequest
    /\ response = "none"
    /\ sends = <<>>
    /\ InitVerification
    /\ InitDetail

E2EEClient_run ==
    \/ login
    \/ login_first_time
    \/ subscribe
    \/ keys_upload
    \/ join
    \/ sync_forever
    \/ sync_callback
    \/ message_callback

WebhookServer_run ==
    \/ web_setup
    \/ web_start
    \/ post_hook

main == E2EEClient_run \/ WebhookServer_run

Next == main

Spec == Init /\ [][Next]_vars

---------------------------------------------------------------------------
\* The verification handshake on its own: the session has logged in from the
\* store, joined its rooms and sits in sync_forever; only to-device events
\* arrive.

InitSynced ==
    /\ InitDetail
    /\ config_file = <<StoredCredential>>
    /\ client = login_with_stored_config(NoClient, <<StoredCredential>>)
    /\ exchanges = 0
    /\ runPc = "sync"
    /\ callbacks = {"message", "sync", "to_device"}
    /\ keys_uploaded = FALSE
    /\ joined = join_rooms
    /\ greeting_sent = FALSE
    /\ cb_result = "none"
    /\ webPc = "listening"
    /\ message_format = "raw"
    /\ posts = 0
    /\ request = NoRequest
    /\ response = "none"
    /\ sends = <<>>
    /\ InitVerification

NextVerification == to_device_callback

SpecVerification == InitSynced /\ [][NextVerification]_vars

---------------------------------------------------------------------------
\* The listener on its own: it accepts requests while the session either
\* has not logged in yet or sits in sync_forever; images are followed
\* through send_image in detail.

InitSend ==
    \E synced \in BOOLEAN :
        /\ InitDetail
        /\ config_file = <<StoredCredential>>
        /\ client = IF synced
                    THEN login_with_stored_config(NoClient, <<StoredCredential>>)
                    ELSE NoClient
        /\ exchanges = 0
        /\ runPc = IF synced THEN "sync" ELSE "start"
        /\ callbacks = IF synced THEN {"message", "sync", "to_device"} ELSE {}
        /\ keys_uploaded = FALSE
        /\ joined = IF synced THEN join_rooms ELSE {}
        /\ greeting_sent = FALSE
        /\ cb_result = "none"
        /\ webPc = "listening"
        /\ message_format = "raw"
        /\ posts = 0
        /\ request = NoRequest
        /\ response = "none"
        /\ sends = <<>>
        /\ InitVerification

NextSend == post_image \/ post_text

SpecSend == InitSend /\ [][NextSend]_vars

---------------------------------------------------------------------------
\* The registry on its own: WebhookServer is constructed over a registry
\* string.

InitRegistry ==
    /\ config_file = <<StoredCredential>>
    /\ client = NoClient
    /\ exchanges = 0
    /\ runPc = "start"
    /\ callbacks = {}
    /\ keys_uploaded = FALSE
    /\ joined = {}
    /\ greeting_sent = FALSE
    /\ cb_result = "none"
    /\ webPc = "new"
    /\ message_format = "raw"
    /\ posts = 0
    /\ request = NoRequest
    /\ response = "none"
    /\ sends = <<>>
    /\ InitVerification
    /\ image = NoImage
    /\ \E n \in 0..MaxGroups : rooms \in RegistryStrings(n)
    /\ known_tokens = <<>>
    /\ sync_calls = <<>>
    /\ MATRIX_SSLVERIFY = "True"

NextRegistry == WebhookServer_init

SpecRegistry == InitRegistry /\ [][NextRegistry]_vars

---------------------------------------------------------------------------
\* The sync loop on its own: the session sits in sync_forever, SyncResponses
\* and room texts arrive, and the listener handles requests in between.

NextSync ==
    \/ sync_callback_enter
    \/ sync_callback_resume
    \/ message_callback
    \/ post_hook

SpecSync == InitSynced /\ [][NextSync]_vars

---------------------------------------------------------------------------
\* The session on its own, under every value of the TLS toggle: run() from
\* construction on, with or without a stored record.

\* Values MATRIX_SSLVERIFY may hold.
SslToggles == {"True", "False", "true", ""}

InitLogin ==
    /\ config_file \in {<<>>, <<StoredCredential>>}
    /\ client = NoClient
    /\ exchanges = 0
    /\ runPc = "start"
    /\ callbacks = {}
    /\ keys_uploaded = FALSE
    /\ joined = {}
    /\ greeting_sent = FALSE
    /\ cb_result = "none"
    /\ webPc = "init"
    /\ message_format = "raw"
    /\ posts = 0
    /\ request = NoRequest
    /\ response = "none"
    /\ sends = <<>>
    /\ InitVerification
    /\ image = NoImage
    /\ rooms = <<>>
    /\ known_tokens = <<>>
    /\ sync_calls = <<>>
    /\ MATRIX_SSLVERIFY \in SslToggles

NextLogin == E2EEClient_run

SpecLogin == InitLogin /\ [][NextLogin]_vars

---------------------------------------------------------------------------
\* Properties of the verification handshake (SpecVerification).

Kinds(log) == [i \in 1..Len(log) |-> log[i].kind]
Ops(log)   == [i \in 1..Len(log) |-> log[i].op]

\* The events of transaction t so far are exactly request, start offering
\* emoji, key, mac, and the transport answered none of them with a failure.
CleanHandshake(t) ==
    /\ Kinds(events[t]) = <<"request", "start", "key", "mac">>
    /\ "emoji" \in events[t][2].sas
    /\ t \notin errored

\* C2: a transaction whose events were request, start (emoji offered), key
\* and mac, in that order and with no failure reported by the transport, has
\* had exactly the replies ready (to the requesting device), accept, confirm
\* and MAC sent for it, in that order, and is verified.
C2_HandshakeReachesVerified ==
    \A t \in Tx :
        CleanHandshake(t) =>
            /\ Ops(td_sent[t]) = <<"ready", "accept", "confirm", "mac">>
            /\ td_sent[t][1].to = PeerOf[t]
            /\ t \in verified

C2_Witness ==
    /\ CleanHandshake("T1")
    /\ "T1" \in verified
    /\ Len(td_sent["T1"]) = 4

HasCancel(log) == \E i \in 1..Len(log) : log[i].kind = "cancel"

\* C3: once a cancel has been handled for a requested transaction that is
\* not verified, a later start, key, mac, done or cancel event of that
\* transaction sends nothing for it and does not verify it.
C3_CancelIsTerminal ==
    [][\A t \in Tx :
          ( /\ Len(events[t]) > 0
            /\ events[t][1].kind = "request"
            /\ HasCancel(events[t])
            /\ t \notin verified
            /\ Len(events'[t]) = Len(events[t]) + 1
            /\ events'[t][Len(events'[t])].kind
                   \in {"start", "key", "mac", "done", "cancel"} )
          => ( td_sent'[t] = td_sent[t] /\ t \notin verified' )]_vars

\* C4: the done reply of a transaction is addressed to the device the ready
\* reply of that transaction went to, which is the device that requested it.
C4_DoneGoesToRequester ==
    \A t \in Tx :
        \A i, j \in 1..Len(td_sent[t]) :
            ( i < j /\ td_sent[t][i].op = "ready" /\ td_sent[t][j].op = "done" )
            => td_sent[t][j].to = td_sent[t][i].to

\* C7: no invocation of to_device_callback ends by raising, and the sync
\* loop is still running after it.
C7_NoExceptionPropagates ==
    cb_result # "raised" /\ runPc = "sync"

\* A key event for a transaction the transport does not hold was handled
\* (nothing was sent for it), and the next event, a request, was answered.
C7_Witness ==
    \E t \in Tx :
        /\ Kinds(events[t]) = <<"key", "request">>
        /\ Ops(td_sent[t]) = <<"ready">>
        /\ cb_result = "returned"

\* C9: handling a start event that does not offer "emoji" sends nothing and
\* changes nothing but the record of events, and the handler returns; handling
\* one that offers it sends exactly an accept for its transaction.
C9_StartWithoutEmojiIsIgnored ==
    [][\A t \in Tx :
          ( /\ Len(events'[t]) = Len(events[t]) + 1
            /\ events'[t][Len(events'[t])].kind = "start" )
          => IF "emoji" \in events'[t][Len(events'[t])].sas
             THEN td_sent'[t] = Append(td_sent[t], [op |-> "accept", to |-> ""])
             ELSE /\ td_sent' = td_sent
                  /\ verification_from_device' = verification_from_device
                  /\ verified' = verified
                  /\ errored' = errored
                  /\ cb_result' = "returned"
                  /\ runPc' = runPc]_vars

\* A request was answered, then a start without emoji was handled: the only
\* reply of the transaction is still the ready.
C9_Witness ==
    \E t \in Tx :
        /\ Kinds(events[t]) = <<"request", "start">>
        /\ "emoji" \notin events[t][2].sas
        /\ Ops(td_sent[t]) = <<"ready">>

---------------------------------------------------------------------------
\* Properties of the start-up and of the webhook handler (Spec).

\* The step handled a webhook request.
Posted == posts' = posts + 1

\* The step invoked send_message or send_image for a webhook request.
WebhookSend ==
    /\ Len(sends') = Len(sends) + 1
    /\ sends'[Len(sends')].src = "webhook"

\* C1: a request whose token is not registered is answered with the token
\* mismatch error (404) and invokes neither send_message nor send_image,
\* whatever the configured format and the content type.
C1_UnknownTokenIs404 ==
    [][(Posted /\ request'.token \notin DOMAIN KNOWN_TOKENS)
          => (response' = "404" /\ sends' = sends)]_vars

\* C5: send_message / send_image is invoked for a webhook request only while
\* the session holds a logged-in client.
C5_SendsOnlyWhenLoggedIn ==
    [][WebhookSend => client.state = "auth"]_vars

\* C6: send_message / send_image is invoked for a webhook request only for a
\* room the bridge has joined.
C6_SendsOnlyToJoinedRooms ==
    [][WebhookSend => sends'[Len(sends')].room \in joined]_vars

\* C8: no invocation of the sync callback or of the room-text callback ends
\* by raising, and run() is not ended by one.
C8_SyncCallbacksNeverRaise ==
    cb_result # "raised" /\ runPc # "crashed"

Ready == runPc \in {"subscribe", "keys_upload", "join", "sync", "crashed"}

\* C10: login() starts the password exchange exactly when the store holds no
\* record; with a record it returns at once with a client restored from the
\* stored user id, device id and access token; no exchange is started
\* anywhere else; and whenever login() has returned the store holds a record.
C10_LoginPaths ==
    /\ [][(runPc = "start" /\ runPc' # "start")
             => /\ (exchanges' = exchanges + 1) <=> (config_file = <<>>)
                /\ (exchanges' = exchanges) <=> (config_file # <<>>)
                /\ config_file # <<>> =>
                      /\ runPc' = "subscribe"
                      /\ client'.state = "auth"
                      /\ client'.user_id = config_file[1].user_id
                      /\ client'.device_id = config_file[1].device_id
                      /\ client'.access_token = config_file[1].access_token]_vars
    /\ [][exchanges' # exchanges => runPc = "start"]_vars
    /\ [](Ready => (config_file # <<>> /\ client.state = "auth"))

\* A first login succeeded: one exchange, the record written, login() returned.
C10_Witness ==
    /\ Ready
    /\ exchanges = 1
    /\ config_file = write_details_to_disk(LoginResponse)
    /\ client.device_id = LoginResponse.device_id

\* C11: once the password exchange of a first login has been rejected the
\* process has ended: no record is in the store, the client is not logged
\* in, exactly one exchange was made, nothing is subscribed, no key upload,
\* join, sync callback or send has happened for the session, and nothing
\* changes any more.
C11_RejectedLoginIsFatal ==
    /\ [](runPc = "exited" =>
            /\ config_file = <<>>
            /\ client.state = "unauth"
            /\ exchanges = 1
            /\ callbacks = {}
            /\ ~keys_uploaded
            /\ joined = {}
            /\ ~greeting_sent
            /\ cb_result = "none")
    /\ [][runPc = "exited" => UNCHANGED vars]_vars
    /\ [][runPc = "first_login" =>
             (runPc' \in {"first_login", "subscribe", "exited"}
              /\ (runPc' = "subscribe" => config_file' # <<>>))]_vars

\* The exchange was made and rejected.
C11_Witness ==
    runPc = "exited" /\ exchanges = 1 /\ config_file = <<>>

\* The request handled by the step is not multipart and bears a registered
\* token.
PostedBody ==
    /\ Posted
    /\ ~request'.multipart
    /\ request'.token \in DOMAIN KNOWN_TOKENS

\* C14: a webhook request whose delivery failed (the transport answered the
\* send with an error response or an exception, or there was no client) is
\* not answered with a success acknowledgment.
C14_FailedSendIsReported ==
    [][(WebhookSend /\ sends'[Len(sends')].answer # "ok")
          => response' \notin {"200", "200_image"}]_vars

\* C15: every request handled is answered with a success acknowledgment or
\* with one of the typed errors 404, 400, 415; no exception leaves the
\* handler.
C15_NoExceptionEscapesHandler ==
    response \in {"none", "200", "200_image", "404", "400", "415"}

\* C16: a non-multipart request with a registered token, under a configured
\* format that is not raw, json or yaml, is answered 415 and sends nothing.
C16_UnknownFormatIs415 ==
    [][(PostedBody /\ message_format \notin {"raw", "json", "yaml"})
          => (response' = "415" /\ sends' = sends)]_vars

\* C19: a non-multipart request with a registered token, under format json
\* or yaml, whose body does not parse as JSON, invokes send_message exactly
\* once, for the room and sender of its token, and is answered with the
\* success acknowledgment.
C19_JsonFailureDoesNotAbort ==
    [][(PostedBody /\ message_format \in {"json", "yaml"} /\ ~request'.json)
          => /\ Len(sends') = Len(sends) + 1
             /\ SubSeq(sends', 1, Len(sends)) = sends
             /\ sends'[Len(sends')].fn = "send_message"
             /\ sends'[Len(sends')].room = KNOWN_TOKENS[request'.token].room
             /\ sends'[Len(sends')].sender = KNOWN_TOKENS[request'.token].app_name
             /\ response' = "200"]_vars

\* C20: run() logs in, then registers the three callbacks, then uploads the
\* device keys (only when should_upload_keys said so), then joins every room
\* of join_rooms, and only then enters sync_forever: the loop is never
\* entered, and no sync callback runs, while a room of join_rooms is not
\* joined.
C20_RunOrder ==
    /\ [](callbacks \in {{}, {"message", "sync", "to_device"}})
    /\ [](callbacks # {} => (client.state = "auth" /\ config_file # <<>>))
    /\ [](runPc \in {"start", "first_login", "subscribe", "exited"}
             => (callbacks = {} /\ ~keys_uploaded /\ joined = {}))
    /\ [](runPc = "keys_upload" => (~keys_uploaded /\ joined = {}))
    /\ [](runPc \in {"sync", "crashed"} => joined = join_rooms)
    /\ [](cb_result # "none" => joined = join_rooms)
    /\ [][keys_uploaded' # keys_uploaded
             => (runPc = "keys_upload" /\ keys_uploaded' /\ joined = {}
                 /\ callbacks = {"message", "sync", "to_device"})]_vars
    /\ [][joined' # joined
             => (runPc = "join" /\ joined \subseteq joined'
                 /\ joined' \subseteq join_rooms
                 /\ callbacks = {"message", "sync", "to_device"})]_vars
    /\ [][(runPc' = "sync" /\ runPc # "sync")
             => (runPc = "join" /\ joined = join_rooms)]_vars

C20_Witness ==
    /\ runPc = "sync"
    /\ joined = join_rooms
    /\ keys_uploaded
    /\ cb_result = "returned"

---------------------------------------------------------------------------
\* Properties of send_image (SpecSend).

\* C12: for a room that is encrypted, or that the client has no entry for,
\* send_image uploads nothing but the ciphertext of the attachment and the
\* message it sends carries "file", never a plain "url"; the attachment
\* bytes are uploaded as they are, with a "url" message, only for a room the
\* client knows as not encrypted.
C12_EncryptedRoomGetsCiphertext ==
    /\ image.room_state \in {"encrypted", "unknown"} =>
          /\ image.run.uploaded \in {NoBytes, encrypt_attachment("file_bytes")}
          /\ image.run.content \in {"none", "file"}
          /\ image.run.upload = "ok" =>
                /\ image.run.uploaded = encrypt_attachment("file_bytes")
                /\ image.run.content = "file"
                /\ image.run.room_send # "none"
    /\ image.run.uploaded = unencrypted("file_bytes") =>
          image.room_state = "plain"
    /\ image.run.content = "url" =>
          /\ image.room_state = "plain"
          /\ image.run.uploaded = unencrypted("file_bytes")
    /\ (image.room_state = "plain" /\ image.run.upload # "none") =>
          image.run.uploaded = unencrypted("file_bytes")

C12_Witness ==
    /\ image.room_state = "unknown"
    /\ image.run.uploaded = encrypt_attachment("file_bytes")
    /\ image.run.content = "file"
    /\ image.run.room_send = "ok"

\* The upload of the most recent send_image returned an UploadError or
\* raised.
UploadFailed == image.run.upload \in {"error", "raise"}

\* C13: when client.upload returns an UploadError or raises, send_image
\* returns without raising and without calling room_send for the image, and
\* a text request handled afterwards is accepted and has send_message call
\* room_send.
C13_FailedUploadIsContained ==
    /\ [](UploadFailed =>
             /\ image.run.result = "returned"
             /\ image.run.content = "none"
             /\ image.run.room_send = "none")
    /\ []((UploadFailed /\ posts < MaxPosts) => ENABLED post_text)
    /\ [][(UploadFailed /\ PostedBody /\ request'.utf8
              /\ format_allowed(message_format))
             => /\ Len(sends') = Len(sends) + 1
                /\ sends'[Len(sends')].fn = "send_message"
                /\ sends'[Len(sends')].answer \in {"ok", "error", "raise"}]_vars

C13_Witness ==
    /\ image.run.upload = "error"
    /\ Len(sends) >= 2
    /\ sends[Len(sends) - 1].fn = "send_image"
    /\ sends[Len(sends) - 1].answer = "error"
    /\ sends[Len(sends)].fn = "send_message"
    /\ sends[Len(sends)].answer = "ok"
    /\ response = "200"

---------------------------------------------------------------------------
\* Properties of the registry (SpecRegistry).

\* The dictionary of two entries, the second winning on an equal token.
TwoTokens(e1, e2) ==
    [t \in {e1.token, e2.token} |->
        IF t = e2.token THEN [room |-> e2.room, app_name |-> e2.app_name]
                        ELSE [room |-> e1.room, app_name |-> e1.app_name]]

\* C17: a registry string of two well-formed entries with different tokens,
\* separated by one space or one newline, parses to exactly the two tokens,
\* each with the room and the whole app name of its entry (which may hold a
\* space), and both separators give the same dictionary.
C17_TwoEntriesParse ==
    webPc = "init" =>
        \A e1, e2 \in WellFormed :
            e1.token # e2.token =>
                LET spaced == Render(e1) \o <<" ">> \o Render(e2)
                    lined  == Render(e1) \o <<"\n">> \o Render(e2)
                IN  /\ rooms \in {spaced, lined} =>
                          known_tokens = TwoTokens(e1, e2)
                    /\ parse_known_tokens(spaced) = parse_known_tokens(lined)

\* The groups of a registry string: the maximal runs of characters other
\* than space and newline, each as <<first index, last index>>.
Groups(s) ==
    {iv \in (1..Len(s)) \X (1..Len(s)) :
        /\ iv[1] <= iv[2]
        /\ \A k \in iv[1]..iv[2] : s[k] \notin {" ", "\n"}
        /\ iv[1] = 1 \/ s[iv[1] - 1] \in {" ", "\n"}
        /\ iv[2] = Len(s) \/ s[iv[2] + 1] \in {" ", "\n"}}

\* A string without its leading and trailing white space.
Trim(s) ==
    LET solid == {i \in 1..Len(s) : s[i] \notin Whitespace} IN
    IF solid = {} THEN <<>>
    ELSE SubSeq(s, CHOOSE i \in solid : \A j \in solid : i <= j,
                   CHOOSE i \in solid : \A j \in solid : j <= i)

\* The three fields of a group with at least two commas: up to the first
\* comma, between the first two commas, and the rest.
Fields(g) ==
    LET commas == {i \in 1..Len(g) : g[i] = ","}
        p == CHOOSE i \in commas : \A j \in commas : i <= j
        q == CHOOSE i \in commas \ {p} : \A j \in commas \ {p} : i <= j
    IN  [token    |-> Trim(SubSeq(g, 1, p - 1)),
         room     |-> Trim(SubSeq(g, p + 1, q - 1)),
         app_name |-> Trim(SubSeq(g, q + 1, Len(g)))]

\* A group is valid iff it has three fields, all non-empty after trimming.
Valid(g) ==
    /\ Cardinality({i \in 1..Len(g) : g[i] = ","}) >= 2
    /\ Fields(g).token # <<>>
    /\ Fields(g).room # <<>>
    /\ Fields(g).app_name # <<>>

ValidGroups(s) ==
    {iv \in Groups(s) : Valid(SubSeq(s, iv[1], iv[2]))}

FieldsAt(s, iv) == Fields(SubSeq(s, iv[1], iv[2]))

\* The valid groups that no later valid group repeats the token of.
LastValidGroups(s) ==
    {iv \in ValidGroups(s) :
        \A other \in ValidGroups(s) :
            FieldsAt(s, other).token = FieldsAt(s, iv).token
                => other[1] <= iv[1]}

\* C18 as stated: after parsing, get_known_rooms() is the admin room and the
\* room of every valid group, two valid groups with one token included.
C18_KnownRoomsOfAllValidGroups ==
    webPc = "init" =>
        known_rooms(known_tokens, MATRIX_ADMIN_ROOM)
            = {MATRIX_ADMIN_ROOM}
              \cup {FieldsAt(rooms, iv).room : iv \in ValidGroups(rooms)}

\* C18, amended: after parsing, the tokens are those of the valid groups,
\* each with the room and app name of the last valid group that carries it,
\* and get_known_rooms() is the admin room and the rooms of those last
\* groups; a group that is not valid contributes nothing and stops nothing.
C18_KnownRoomsOfLastValidGroups ==
    webPc = "init" =>
        /\ DOMAIN known_tokens
             = {FieldsAt(rooms, iv).token : iv \in ValidGroups(rooms)}
        /\ \A iv \in LastValidGroups(rooms) :
              known_tokens[FieldsAt(rooms, iv).token]
                = [room |-> FieldsAt(rooms, iv).room,
                   app_name |-> FieldsAt(rooms, iv).app_name]
        /\ known_rooms(known_tokens, MATRIX_ADMIN_ROOM)
             = {MATRIX_ADMIN_ROOM}
               \cup {FieldsAt(rooms, iv).room : iv \in LastValidGroups(rooms)}

\* Two valid groups with one token next to a group that is not valid: the
\* room of the earlier valid group is not known.
C18_Witness ==
    /\ webPc = "init"
    /\ Cardinality(Groups(rooms)) > Cardinality(ValidGroups(rooms))
    /\ Cardinality(ValidGroups(rooms)) > Cardinality(LastValidGroups(rooms))
    /\ \E iv \in ValidGroups(rooms) :
          FieldsAt(rooms, iv).room
              \notin known_rooms(known_tokens, MATRIX_ADMIN_ROOM)

---------------------------------------------------------------------------
\* Properties of the sync callback (SpecSync).

\* The invocations of _sync_callback that went for the greeting, and the
\* greetings handed to the transport.
Greeters  == {i \in 1..Len(sync_calls) : sync_calls[i].greets}
Greetings == {i \in 1..Len(sends) : sends[i].src = "greeting"}

\* C21: the greeting is sent at most once, whatever the number of
\* SyncResponses and however the callbacks interleave with each other and
\* with the webhook handler: greeting_sent is true exactly from the first
\* invocation of the callback on and never goes back to false, only that
\* first invocation sends, and a greeting whose send failed is not sent
\* again.
C21_GreetingAtMostOnce ==
    /\ [](greeting_sent <=> Len(sync_calls) >= 1)
    /\ [](Greeters \subseteq {1})
    /\ [](Cardinality(Greetings) <= 1)
    /\ [](Greetings # {} => (greeting_sent /\ sync_calls[1].pc # "awaiting"))
    /\ [][greeting_sent => greeting_sent']_vars
    /\ [][Greetings # {} => Greetings' = Greetings]_vars

\* Three callbacks have run, the send of the first one's greeting failed
\* with an error response, and a webhook message went out while it was
\* awaited.
C21_Witness ==
    /\ Len(sync_calls) = 3
    /\ sync_calls[1].pc = "returned"
    /\ Len(sends) = 2
    /\ sends[1].src = "webhook"
    /\ sends[2].src = "greeting"
    /\ sends[2].answer = "error"

---------------------------------------------------------------------------
\* Properties of the TLS toggle (SpecLogin).

\* C22: whichever path built the client, from the password exchange or from
\* the stored record, its TLS verification is on exactly when the toggle is
\* "True"; so both paths give the same setting for every value of the
\* toggle.
C22_TlsToggleHonouredOnBothPaths ==
    client.state # "none" => (client.ssl <=> MATRIX_SSLVERIFY = "True")

=============================================================================
